---- MODULE Spec2Model ----
(***************************************************************************)
(* gobot-bme280: configuration resolution (defaults, JSON file,            *)
(* environment), configuration validation, and the start-up sequence of    *)
(* main/run.                                                               *)
(*                                                                         *)
(* Go strings are modelled as sequences of one-character strings, so that  *)
(* strconv.Atoi, strconv.ParseBool and strings.ToUpper are computed on the *)
(* characters.  Go errors are modelled by their message kind (a TLA+       *)
(* string); NoErr stands for the nil error.  A *Config is a sequence of    *)
(* length 0 (nil) or 1.                                                    *)
(***************************************************************************)
EXTENDS Integers, Sequences, FiniteSets, TLC

VARIABLES
    pc,           \* position of the process in main/Read/run
    args,         \* parsed command line: [configFile, version]
    file,         \* what os.ReadFile of args.configFile finds
    env,          \* the process environment: a function from the names set to their values
    fileRet,      \* the pair returned by ReadJsonConfig: [conf, err]
    conf,         \* the *Config held by main (Nil or <<c>>)
    err,          \* the error held by main
    metrics,      \* address the metrics server goroutine was started with (Nil or <<addr>>)
    adaptors,     \* TRUE once the raspi adaptor and the BME280 driver are built
    mqttAdaptor,  \* the MQTT adaptor built by run (Nil or <<a>>)
    bot,          \* "none", "assembled", "started"
    exitCode      \* Running while the process lives, then its exit status

vars == <<pc, args, file, env, fileRet, conf, err, metrics, adaptors,
          mqttAdaptor, bot, exitCode>>

----------------------------------------------------------------------------
(* Values *)

Nil == <<>>
Some(x) == <<x>>
EmptyStr == <<>>
NoErr == "nil"
Running == "running"

ErrNotDefined == "not defined"
ErrAtoi == "strconv.Atoi: invalid syntax"
ErrParseBool == "strconv.ParseBool: invalid syntax"
ErrReadFile == "could not read config from file"
ErrJsonSyntax == "json: syntax error"
ErrJsonType == "json: cannot unmarshal value into Go struct field"
ErrEmptyPlacement == "empty placement provided"
ErrIntervalLow == "invalid interval: must not be lower than 30"
ErrIntervalHigh == "invalid interval: mut not be greater than 300"
ErrSensorBus == "invalid gpio bus"
ErrSensorAddress == "invalid gpio address"
ErrMqttHost == "empty mqtt host"
ErrMqttClientKey == "client cert given without client key"
ErrMqttServerCa == "server ca given without client cert and key"

----------------------------------------------------------------------------
(* Characters: strings.ToUpper, strconv.Atoi, strconv.ParseBool *)

LowerLetters ==
    <<"a","b","c","d","e","f","g","h","i","j","k","l","m",
      "n","o","p","q","r","s","t","u","v","w","x","y","z">>

UpperLetters ==
    <<"A","B","C","D","E","F","G","H","I","J","K","L","M",
      "N","O","P","Q","R","S","T","U","V","W","X","Y","Z">>

Digits == <<"0","1","2","3","4","5","6","7","8","9">>

ToUpperChar(c) ==
    IF \E i \in DOMAIN LowerLetters : LowerLetters[i] = c
    THEN UpperLetters[CHOOSE i \in DOMAIN LowerLetters : LowerLetters[i] = c]
    ELSE c

ToUpper(s) == [i \in 1..Len(s) |-> ToUpperChar(s[i])]

IsDigit(c) == \E i \in DOMAIN Digits : Digits[i] = c

DigitVal(c) == (CHOOSE i \in DOMAIN Digits : Digits[i] = c) - 1

RECURSIVE DigitsVal(_)
\* n = n*10 + int(ch) over the digits, left to right
DigitsVal(s) ==
    IF s = <<>> THEN 0
    ELSE DigitsVal(SubSeq(s, 1, Len(s) - 1)) * 10 + DigitVal(s[Len(s)])

\* strconv.Atoi on a string shorter than 19 characters (the fast path):
\* an optional sign, then one or more decimal digits
Atoi(s) ==
    IF s = <<>> THEN [val |-> 0, err |-> ErrAtoi]
    ELSE LET signed == s[1] \in {"-", "+"}
             body == IF signed THEN Tail(s) ELSE s
         IN  IF body = <<>> \/ \E i \in DOMAIN body : ~IsDigit(body[i])
             THEN [val |-> 0, err |-> ErrAtoi]
             ELSE [val |-> IF s[1] = "-" THEN 0 - DigitsVal(body) ELSE DigitsVal(body),
                   err |-> NoErr]

TrueTokens ==
    { <<"1">>, <<"t">>, <<"T">>, <<"T","R","U","E">>, <<"t","r","u","e">>,
      <<"T","r","u","e">> }

FalseTokens ==
    { <<"0">>, <<"f">>, <<"F">>, <<"F","A","L","S","E">>, <<"f","a","l","s","e">>,
      <<"F","a","l","s","e">> }

ParseBool(s) ==
    IF s \in TrueTokens THEN [val |-> TRUE, err |-> NoErr]
    ELSE IF s \in FalseTokens THEN [val |-> FALSE, err |-> NoErr]
    ELSE [val |-> FALSE, err |-> ErrParseBool]

----------------------------------------------------------------------------
(* Constants of package config *)

BotName == <<"g","o","b","o","t","_","b","m","e","2","8","0">>
defaultLogSensor == FALSE
defaultIntervalSeconds == 30
defaultMetricConfig == <<":","9","1","9","2">>
defaultGpioBus == 1
defaultGpioAddress == 118
MinIntervalSecs == 30
MaxIntervalSecs == 300

defaultSensorConfig == [GpioBus |-> defaultGpioBus, GpioAddress |-> defaultGpioAddress]

\* Config with the embedded MqttConfig and SensorConfig fields promoted
DefaultConfig ==
    [ Placement      |-> EmptyStr,
      MetricConfig   |-> defaultMetricConfig,
      IntervalSecs   |-> defaultIntervalSeconds,
      LogSensor      |-> defaultLogSensor,
      DisableMqtt    |-> FALSE,
      Host           |-> EmptyStr,
      Topic          |-> EmptyStr,
      ClientKeyFile  |-> EmptyStr,
      ClientCertFile |-> EmptyStr,
      ServerCaFile   |-> EmptyStr,
      GpioBus        |-> defaultSensorConfig.GpioBus,
      GpioAddress    |-> defaultSensorConfig.GpioAddress ]

----------------------------------------------------------------------------
(* The environment layer *)

\* the keys ConfigFromEnv passes to fromEnv, fromEnvBool and fromEnvInt
KeyPlacement == <<"p","l","a","c","e","m","e","n","t">>
KeyLogSensor == <<"L","O","G","_","S","E","N","S","O","R">>
KeyInterval == <<"I","N","T","E","R","V","A","L","_","S">>
KeyDisableMqtt == <<"D","I","S","A","B","L","E","_","M","Q","T","T">>
KeyMqttHost == <<"M","Q","T","T","_","H","O","S","T">>
KeyMqttTopic == <<"M","Q","T","T","_","T","O","P","I","C">>
KeyMetricsAddr == <<"M","E","T","R","I","C","S","_","A","D","D","R">>
KeyClientKeyFile ==
    <<"S","S","L","_","C","L","I","E","N","T","_","K","E","Y","_","F","I","L","E">>
KeyClientCertFile ==
    <<"S","S","L","_","C","L","I","E","N","T","_","C","E","R","T","_","F","I","L","E">>

\* fmt.Sprintf("%s_%s", strings.ToUpper(BotName), strings.ToUpper(name))
computeEnvName(name) == ToUpper(BotName) \o <<"_">> \o ToUpper(name)

\* os.Getenv: the value of the variable, empty when it is not present
Getenv(e, name) == IF name \in DOMAIN e THEN e[name] ELSE EmptyStr

\* fromEnv without the test for the empty value
fromEnvAcceptsEmpty(e, name) ==
    [val |-> Getenv(e, computeEnvName(name)), err |-> NoErr]

fromEnv(e, name) ==
    LET val == Getenv(e, computeEnvName(name))
    IN  IF val = EmptyStr
        THEN [val |-> EmptyStr, err |-> ErrNotDefined]
        ELSE [val |-> val, err |-> NoErr]

\* fromEnvInt without the test of the error of strconv.Atoi
fromEnvIntIgnoresAtoiError(e, name) ==
    LET r == fromEnv(e, name)
    IN  IF r.err # NoErr THEN [val |-> -1, err |-> r.err]
        ELSE [val |-> Atoi(r.val).val, err |-> NoErr]

fromEnvInt(e, name) ==
    LET r == fromEnv(e, name)
    IN  IF r.err # NoErr THEN [val |-> -1, err |-> r.err]
        ELSE LET parsed == Atoi(r.val)
             IN  IF parsed.err # NoErr THEN [val |-> -1, err |-> parsed.err]
                 ELSE [val |-> parsed.val, err |-> NoErr]

\* fromEnvBool returning false in place of the parsed value
fromEnvBoolDropsValue(e, name) ==
    LET r == fromEnv(e, name)
    IN  IF r.err # NoErr THEN [val |-> FALSE, err |-> r.err]
        ELSE [val |-> FALSE, err |-> ParseBool(r.val).err]

fromEnvBool(e, name) ==
    LET r == fromEnv(e, name)
    IN  IF r.err # NoErr THEN [val |-> FALSE, err |-> r.err]
        ELSE LET parsed == ParseBool(r.val)
             IN  IF parsed.err # NoErr THEN [val |-> FALSE, err |-> parsed.err]
                 ELSE [val |-> parsed.val, err |-> NoErr]

\* SensorConfig.ConfigFromEnv: none of the recognized environment variables
\* belongs to the sensor sub-config
SensorConfigFromEnv(c, e) == c

\* the body of ConfigFromEnv after conf := DefaultConfig(): one override per
\* variable, each applied only when its read returned no error
ApplyEnv(c0, e) ==
    LET placement == fromEnv(e, KeyPlacement)
        logSensor == fromEnvBool(e, KeyLogSensor)
        intervalSeconds == fromEnvInt(e, KeyInterval)
        disableMqtt == fromEnvBool(e, KeyDisableMqtt)
        mqttHost == fromEnv(e, KeyMqttHost)
        mqttTopic == fromEnv(e, KeyMqttTopic)
        metricConfig == fromEnv(e, KeyMetricsAddr)
        clientKeyFile == fromEnv(e, KeyClientKeyFile)
        clientCertFile == fromEnv(e, KeyClientCertFile)
        conf1 ==
          [ c0 EXCEPT
              !.Placement = IF placement.err = NoErr THEN placement.val ELSE @,
              !.LogSensor = IF logSensor.err = NoErr THEN logSensor.val ELSE @,
              !.IntervalSecs =
                  IF intervalSeconds.err = NoErr THEN intervalSeconds.val ELSE @,
              !.DisableMqtt = IF disableMqtt.err = NoErr THEN disableMqtt.val ELSE @,
              !.Host = IF mqttHost.err = NoErr THEN mqttHost.val ELSE @,
              !.Topic = IF mqttTopic.err = NoErr THEN mqttTopic.val ELSE @,
              !.MetricConfig = IF metricConfig.err = NoErr THEN metricConfig.val ELSE @,
              !.ClientKeyFile =
                  IF clientKeyFile.err = NoErr THEN clientKeyFile.val ELSE @,
              !.ClientCertFile =
                  IF clientCertFile.err = NoErr THEN clientCertFile.val ELSE @ ]
    IN  SensorConfigFromEnv(conf1, e)

\* ConfigFromEnv starting from the zero Config in place of DefaultConfig()
ConfigFromEnvZero(e) ==
    ApplyEnv([ Placement |-> EmptyStr, MetricConfig |-> EmptyStr, IntervalSecs |-> 0,
               LogSensor |-> FALSE, DisableMqtt |-> FALSE, Host |-> EmptyStr,
               Topic |-> EmptyStr, ClientKeyFile |-> EmptyStr,
               ClientCertFile |-> EmptyStr, ServerCaFile |-> EmptyStr,
               GpioBus |-> 0, GpioAddress |-> 0 ], e)

ConfigFromEnv(e) == ApplyEnv(DefaultConfig, e)

----------------------------------------------------------------------------
(* The file layer *)

\* the Go value of a JSON value of the type of its field
JsonValue(v) ==
    CASE v.type = "string" -> v.str
      [] v.type = "number" -> v.num
      [] v.type = "bool" -> v.bool

\* the JSON type json.Unmarshal accepts for each field of Config
FieldType ==
    [ Placement      |-> "string",
      MetricConfig   |-> "string",
      IntervalSecs   |-> "number",
      LogSensor      |-> "bool",
      DisableMqtt    |-> "bool",
      Host           |-> "string",
      Topic          |-> "string",
      ClientKeyFile  |-> "string",
      ClientCertFile |-> "string",
      ServerCaFile   |-> "string",
      GpioBus        |-> "number",
      GpioAddress    |-> "number" ]

\* json.Unmarshal(fileContent, &ret).  A text that is not JSON is rejected
\* before anything is stored.  In a JSON object (doc: field -> [type, val])
\* every member of the right type is stored, a member of the wrong type is
\* skipped and reported once decoding is over.
Unmarshal(f, ret) ==
    IF f.kind = "syntax" THEN [conf |-> ret, err |-> ErrJsonSyntax]
    ELSE [ conf |-> [ fld \in DOMAIN ret |->
                        IF fld \in DOMAIN f.doc /\ f.doc[fld].type = FieldType[fld]
                        THEN JsonValue(f.doc[fld]) ELSE ret[fld] ],
           err  |-> IF \E fld \in DOMAIN f.doc : f.doc[fld].type # FieldType[fld]
                    THEN ErrJsonType ELSE NoErr ]

ReadJsonConfig(f) ==
    IF f.kind = "missing" THEN [conf |-> Nil, err |-> ErrReadFile]
    ELSE LET r == Unmarshal(f, DefaultConfig)
         IN  [conf |-> Some(r.conf), err |-> r.err]

----------------------------------------------------------------------------
(* Validation *)

\* SensorConfig.Validate: range checks of bus and address
SensorValidate(c) ==
    IF c.GpioBus < 0 THEN ErrSensorBus
    ELSE IF c.GpioAddress < 0 THEN ErrSensorAddress
    ELSE NoErr

\* MqttConfig.Validate: a host, a client key with every client cert, client
\* TLS material with every server CA
MqttValidate(c) ==
    IF c.Host = EmptyStr THEN ErrMqttHost
    ELSE IF c.ClientCertFile # EmptyStr /\ c.ClientKeyFile = EmptyStr
         THEN ErrMqttClientKey
    ELSE IF c.ServerCaFile # EmptyStr
            /\ (c.ClientCertFile = EmptyStr \/ c.ClientKeyFile = EmptyStr)
         THEN ErrMqttServerCa
    ELSE NoErr

\* Validate with the upper bound of the interval excluded
ValidateUpperExclusive(c) ==
    IF c.Placement = EmptyStr THEN ErrEmptyPlacement
    ELSE IF c.IntervalSecs < MinIntervalSecs THEN ErrIntervalLow
    ELSE IF c.IntervalSecs >= MaxIntervalSecs THEN ErrIntervalHigh
    ELSE IF SensorValidate(c) # NoErr THEN SensorValidate(c)
    ELSE IF c.DisableMqtt THEN NoErr
    ELSE MqttValidate(c)

\* Validate without the placement rule
ValidateNoPlacement(c) ==
    IF c.IntervalSecs < MinIntervalSecs THEN ErrIntervalLow
    ELSE IF c.IntervalSecs > MaxIntervalSecs THEN ErrIntervalHigh
    ELSE IF SensorValidate(c) # NoErr THEN SensorValidate(c)
    ELSE IF c.DisableMqtt THEN NoErr
    ELSE MqttValidate(c)

\* Validate consulting the MQTT sub-validation whether MQTT is disabled or not
ValidateMqttAlways(c) ==
    IF c.Placement = EmptyStr THEN ErrEmptyPlacement
    ELSE IF c.IntervalSecs < MinIntervalSecs THEN ErrIntervalLow
    ELSE IF c.IntervalSecs > MaxIntervalSecs THEN ErrIntervalHigh
    ELSE IF SensorValidate(c) # NoErr THEN SensorValidate(c)
    ELSE MqttValidate(c)

\* Validate with the sensor sub-validation before the interval rules
ValidateSensorFirst(c) ==
    IF c.Placement = EmptyStr THEN ErrEmptyPlacement
    ELSE IF SensorValidate(c) # NoErr THEN SensorValidate(c)
    ELSE IF c.IntervalSecs < MinIntervalSecs THEN ErrIntervalLow
    ELSE IF c.IntervalSecs > MaxIntervalSecs THEN ErrIntervalHigh
    ELSE IF c.DisableMqtt THEN NoErr
    ELSE MqttValidate(c)

\* (conf *Config) Validate
Validate(c) ==
    IF c.Placement = EmptyStr THEN ErrEmptyPlacement
    ELSE IF c.IntervalSecs < MinIntervalSecs THEN ErrIntervalLow
    ELSE IF c.IntervalSecs > MaxIntervalSecs THEN ErrIntervalHigh
    ELSE IF SensorValidate(c) # NoErr THEN SensorValidate(c)
    ELSE IF c.DisableMqtt THEN NoErr
    ELSE MqttValidate(c)

----------------------------------------------------------------------------
(* Inputs: command lines, files and environments *)

MaxEnvVars == 2     \* variables set in the environment
MaxFileKeys == 2    \* members of the JSON object in the file
IntervalMargin == 2 \* intervals tried below 0 and above MaxIntervalSecs

ConfigPath == <<"c",".","j","s","o","n">>

Args ==
    { [configFile |-> EmptyStr, version |-> FALSE],
      [configFile |-> EmptyStr, version |-> TRUE],
      [configFile |-> ConfigPath, version |-> FALSE] }

EnvPrefix == <<"G","O","B","O","T","_","B","M","E","2","8","0","_">>
VarPlacement == EnvPrefix \o <<"P","L","A","C","E","M","E","N","T">>
VarLogSensor == EnvPrefix \o KeyLogSensor
VarInterval == EnvPrefix \o KeyInterval
VarDisableMqtt == EnvPrefix \o KeyDisableMqtt
VarMqttHost == EnvPrefix \o KeyMqttHost
VarMqttTopic == EnvPrefix \o KeyMqttTopic
VarMetricsAddr == EnvPrefix \o KeyMetricsAddr
VarClientKeyFile == EnvPrefix \o KeyClientKeyFile
VarClientCertFile == EnvPrefix \o KeyClientCertFile

\* the values each variable takes when it is set
EnvValues ==
    (VarPlacement :> { EmptyStr, <<"g">> })
    @@ (VarLogSensor :> { <<"t","r","u","e">>, <<"0">>, <<"y","e","s">> })
    @@ (VarInterval :> { <<"6","0">>, <<"-","5">>, <<"4","x">> })
    @@ (VarDisableMqtt :> { <<"T">>, <<"n","o">> })
    @@ (VarMqttHost :> { <<"h">> })
    @@ (VarMqttTopic :> { <<"t">> })
    @@ (VarMetricsAddr :> { EmptyStr, <<":","1">> })
    @@ (VarClientKeyFile :> { <<"k">> })
    @@ (VarClientCertFile :> { <<"c">> })

EnvVars == DOMAIN EnvValues

RECURSIVE EnvsOver(_, _)
\* the environments that set at most k of the variables V
EnvsOver(V, k) ==
    IF V = {} \/ k = 0 THEN { <<>> }
    ELSE LET n == CHOOSE x \in V : TRUE
         IN  EnvsOver(V \ {n}, k)
             \cup { (n :> v) @@ e : v \in EnvValues[n], e \in EnvsOver(V \ {n}, k - 1) }

Envs == EnvsOver(EnvVars, MaxEnvVars)

JsonString(s) == [type |-> "string", str |-> s, num |-> 0, bool |-> FALSE]
JsonNumber(n) == [type |-> "number", str |-> EmptyStr, num |-> n, bool |-> FALSE]
JsonBool(b) == [type |-> "bool", str |-> EmptyStr, num |-> 0, bool |-> b]

\* the members a file's JSON object is built from
FileValues ==
    [ Placement    |-> { JsonString(<<"p">>) },
      IntervalSecs |-> { JsonNumber(120), JsonString(<<"6","0">>) },
      MetricConfig |-> { JsonString(EmptyStr) },
      LogSensor    |-> { JsonBool(TRUE) },
      Host         |-> { JsonString(<<"b">>) },
      GpioBus      |-> { JsonNumber(-1) } ]

RECURSIVE DocsOver(_, _)
\* the JSON objects with at most k of the members K
DocsOver(K, k) ==
    IF K = {} \/ k = 0 THEN { <<>> }
    ELSE LET n == CHOOSE x \in K : TRUE
         IN  DocsOver(K \ {n}, k)
             \cup { (n :> v) @@ d : v \in FileValues[n], d \in DocsOver(K \ {n}, k - 1) }

Docs == DocsOver(DOMAIN FileValues, MaxFileKeys)

Files ==
    { [kind |-> "missing"], [kind |-> "syntax"] }
    \cup { [kind |-> "json", doc |-> d] : d \in Docs }

\* the configurations Validate is tried on
Configs ==
    { [ DefaultConfig EXCEPT
          !.Placement = p, !.IntervalSecs = i, !.DisableMqtt = d, !.Host = h,
          !.ClientCertFile = crt, !.ClientKeyFile = key, !.ServerCaFile = ca,
          !.GpioBus = s[1], !.GpioAddress = s[2] ] :
        p \in { EmptyStr, <<"p">> },
        i \in (0 - IntervalMargin)..(MaxIntervalSecs + IntervalMargin),
        d \in BOOLEAN,
        h \in { EmptyStr, <<"h">> },
        crt \in { EmptyStr, <<"c">> },
        key \in { EmptyStr, <<"k">> },
        ca \in { EmptyStr, <<"a">> },
        s \in { <<defaultGpioBus, defaultGpioAddress>>, <<-1, defaultGpioAddress>>,
                <<defaultGpioBus, -1>> } }

----------------------------------------------------------------------------
(* The process: main, config.Read, run *)

Init ==
    /\ pc = "main"
    /\ env \in Envs
    /\ args \in Args
    /\ file \in IF args.configFile = EmptyStr THEN { [kind |-> "missing"] } ELSE Files
    /\ fileRet = [conf |-> Nil, err |-> NoErr]
    /\ conf = Nil
    /\ err = NoErr
    /\ metrics = Nil
    /\ adaptors = FALSE
    /\ mqttAdaptor = Nil
    /\ bot = "none"
    /\ exitCode = Running

\* os.Exit(code), log.Fatalf
Exit(code) == pc' = "exit" /\ exitCode' = code

\* main: flag.Parse, the version flag
MainStart ==
    /\ pc = "main"
    /\ IF args.version THEN Exit(0) ELSE pc' = "Read" /\ UNCHANGED exitCode
    /\ UNCHANGED <<args, file, env, fileRet, conf, err, metrics, adaptors,
                   mqttAdaptor, bot>>

\* config.Read, file layer: skipped when no path is given; a file that
\* cannot be read or decoded ends Read with the error and no configuration
ReadFile ==
    /\ pc = "Read"
    /\ IF args.configFile = EmptyStr
       THEN /\ pc' = "ReadEnv"
            /\ UNCHANGED <<fileRet, conf, err>>
       ELSE /\ fileRet' = ReadJsonConfig(file)
            /\ IF fileRet'.err # NoErr
               THEN conf' = Nil /\ err' = fileRet'.err /\ pc' = "ReadReturned"
               ELSE conf' = fileRet'.conf /\ err' = NoErr /\ pc' = "ReadEnv"
    /\ UNCHANGED <<args, file, env, metrics, adaptors, mqttAdaptor, bot, exitCode>>

\* config.Read, environment layer: over the defaults when there is no file
\* layer, else over the result of the file layer
ReadEnv ==
    /\ pc = "ReadEnv"
    /\ conf' = IF conf = Nil THEN Some(ConfigFromEnv(env))
               ELSE Some(ApplyEnv(conf[1], env))
    /\ err' = NoErr
    /\ pc' = "ReadReturned"
    /\ UNCHANGED <<args, file, env, fileRet, metrics, adaptors, mqttAdaptor, bot,
                   exitCode>>

\* main: if err != nil { log.Fatalf("could not read config") }; PrintFields
MainCheckRead ==
    /\ pc = "ReadReturned"
    /\ IF err # NoErr THEN Exit(1) ELSE pc' = "Validate" /\ UNCHANGED exitCode
    /\ UNCHANGED <<args, file, env, fileRet, conf, err, metrics, adaptors,
                   mqttAdaptor, bot>>

\* config.Validate(conf): the rules of (conf *Config) Validate
ConfigValidate(c) == Validate(c)

\* main calling run whatever config.Validate returned
MainValidateIgnoresError ==
    /\ pc = "Validate"
    /\ err' = ConfigValidate(conf[1])
    /\ pc' = "run"
    /\ UNCHANGED <<args, file, env, fileRet, conf, metrics, adaptors, mqttAdaptor,
                   bot, exitCode>>

\* main: if err := config.Validate(conf); err != nil { log.Fatalf } ; run(conf)
MainValidate ==
    /\ pc = "Validate"
    /\ err' = ConfigValidate(conf[1])
    /\ IF err' # NoErr THEN Exit(1) ELSE pc' = "run" /\ UNCHANGED exitCode
    /\ UNCHANGED <<args, file, env, fileRet, conf, metrics, adaptors, mqttAdaptor,
                   bot>>

\* run: go internal.StartMetricsServer(conf.MetricConfig)
RunMetrics ==
    /\ pc = "run"
    /\ metrics' = IF conf[1].MetricConfig # EmptyStr
                  THEN Some(conf[1].MetricConfig) ELSE metrics
    /\ pc' = "run_adaptors"
    /\ UNCHANGED <<args, file, env, fileRet, conf, err, adaptors, mqttAdaptor, bot,
                   exitCode>>

\* run: raspi.NewAdaptor, i2c.NewBME280Driver
RunAdaptors ==
    /\ pc = "run_adaptors"
    /\ adaptors' = TRUE
    /\ pc' = "run_mqtt"
    /\ UNCHANGED <<args, file, env, fileRet, conf, err, metrics, mqttAdaptor, bot,
                   exitCode>>

\* conf.MqttConfig.Disabled: the mqtt-disabled flag of the configuration
MqttDisabled(c) == c.DisableMqtt

\* MqttConfig.UsesSslCerts: client cert and client key are both given
UsesSslCerts(c) == c.ClientCertFile # EmptyStr /\ c.ClientKeyFile # EmptyStr

\* run: the MQTT adaptor, unless MQTT is disabled
RunMqtt ==
    /\ pc = "run_mqtt"
    /\ LET c == conf[1]
       IN  mqttAdaptor' =
             IF ~MqttDisabled(c)
             THEN Some([ host       |-> c.Host,
                         clientId   |-> BotName \o <<"_">> \o c.Placement,
                         clientCert |-> IF UsesSslCerts(c) THEN c.ClientCertFile
                                        ELSE EmptyStr,
                         clientKey  |-> IF UsesSslCerts(c) THEN c.ClientKeyFile
                                        ELSE EmptyStr,
                         serverCert |-> IF UsesSslCerts(c) /\ Len(c.ServerCaFile) > 0
                                        THEN c.ServerCaFile ELSE EmptyStr ])
             ELSE Nil
    /\ pc' = "run_assemble"
    /\ UNCHANGED <<args, file, env, fileRet, conf, err, metrics, adaptors, bot,
                   exitCode>>

\* run: internal.AssembleBot(adaptors)
RunAssemble ==
    /\ pc = "run_assemble"
    /\ bot' = "assembled"
    /\ pc' = "run_start"
    /\ UNCHANGED <<args, file, env, fileRet, conf, err, metrics, adaptors,
                   mqttAdaptor, exitCode>>

\* run: bot.Start(), which fails (log.Fatalf) or works until the bot is stopped
RunStart ==
    /\ pc = "run_start"
    /\ \E started \in BOOLEAN :
         IF started
         THEN bot' = "started" /\ pc' = "started" /\ UNCHANGED exitCode
         ELSE Exit(1) /\ UNCHANGED bot
    /\ UNCHANGED <<args, file, env, fileRet, conf, err, metrics, adaptors,
                   mqttAdaptor>>

\* bot.Start returned nil: run and main return
RunReturn ==
    /\ pc = "started"
    /\ Exit(0)
    /\ UNCHANGED <<args, file, env, fileRet, conf, err, metrics, adaptors,
                   mqttAdaptor, bot>>

Next ==
    \/ MainStart
    \/ ReadFile
    \/ ReadEnv
    \/ MainCheckRead
    \/ MainValidate
    \/ RunMetrics
    \/ RunAdaptors
    \/ RunMqtt
    \/ RunAssemble
    \/ RunStart
    \/ RunReturn

Spec == Init /\ [][Next]_vars

----------------------------------------------------------------------------
(* Validate applied to every configuration of Configs *)

InitValidate ==
    /\ pc = "validate_call"
    /\ conf \in { Some(c) : c \in Configs }
    /\ args = [configFile |-> EmptyStr, version |-> FALSE]
    /\ file = [kind |-> "missing"]
    /\ env = <<>>
    /\ fileRet = [conf |-> Nil, err |-> NoErr]
    /\ err = NoErr
    /\ metrics = Nil
    /\ adaptors = FALSE
    /\ mqttAdaptor = Nil
    /\ bot = "none"
    /\ exitCode = Running

ValidateCall ==
    /\ pc = "validate_call"
    /\ err' = Validate(conf[1])
    /\ pc' = "validate_return"
    /\ UNCHANGED <<args, file, env, fileRet, conf, metrics, adaptors, mqttAdaptor,
                   bot, exitCode>>

NextValidate == ValidateCall

SpecValidate == InitValidate /\ [][NextValidate]_vars

----------------------------------------------------------------------------
(* Properties of resolution *)

\* the environment-overridable fields, each with its variable and its type
Overridable ==
    { [field |-> "Placement", var |-> VarPlacement, type |-> "string"],
      [field |-> "LogSensor", var |-> VarLogSensor, type |-> "bool"],
      [field |-> "IntervalSecs", var |-> VarInterval, type |-> "number"],
      [field |-> "DisableMqtt", var |-> VarDisableMqtt, type |-> "bool"],
      [field |-> "Host", var |-> VarMqttHost, type |-> "string"],
      [field |-> "Topic", var |-> VarMqttTopic, type |-> "string"],
      [field |-> "MetricConfig", var |-> VarMetricsAddr, type |-> "string"],
      [field |-> "ClientKeyFile", var |-> VarClientKeyFile, type |-> "string"],
      [field |-> "ClientCertFile", var |-> VarClientCertFile, type |-> "string"] }

EnvSet(o) == o.var \in DOMAIN env

\* the variable is set and converts to the type of its field
EnvParses(o) ==
    /\ EnvSet(o)
    /\ CASE o.type = "string" -> TRUE
         [] o.type = "number" -> Atoi(env[o.var]).err = NoErr
         [] o.type = "bool" -> ParseBool(env[o.var]).err = NoErr

\* the variable is set and does not convert to the type of its field
EnvFailsConversion(o) == EnvSet(o) /\ ~EnvParses(o)

EnvParsed(o) ==
    CASE o.type = "string" -> env[o.var]
      [] o.type = "number" -> Atoi(env[o.var]).val
      [] o.type = "bool" -> ParseBool(env[o.var]).val

\* the variable is set to a non-empty value that converts
EnvParsesNonEmpty(o) == EnvParses(o) /\ env[o.var] # EmptyStr

\* config.Read returned a configuration
Resolved == pc = "ReadReturned" /\ err = NoErr

\* the configuration the layers before the environment resolved
Prior == IF args.configFile = EmptyStr THEN DefaultConfig ELSE fileRet.conf[1]

\* C1 as stated: every field whose variable is set and parses carries the
\* environment value, and every field without such a variable keeps the value
\* of the earlier layers
C1_EnvOverridesAsStated ==
    Resolved =>
        /\ \A o \in Overridable : EnvParses(o) => conf[1][o.field] = EnvParsed(o)
        /\ \A f \in DOMAIN conf[1] :
             (~\E o \in Overridable : o.field = f /\ EnvParses(o))
                 => conf[1][f] = Prior[f]

\* C1 amended: every field whose variable is set to a non-empty value that
\* parses carries the environment value, overriding the default and the value
\* of the file, and every other field keeps the value of the earlier layers
C1_EnvOverrides ==
    Resolved =>
        /\ \A o \in Overridable :
             EnvParsesNonEmpty(o) => conf[1][o.field] = EnvParsed(o)
        /\ \A f \in DOMAIN conf[1] :
             (~\E o \in Overridable : o.field = f /\ EnvParsesNonEmpty(o))
                 => conf[1][f] = Prior[f]

\* a variable overrides the value the file gave its field while another field
\* keeps the value the file gave it
C1_Witness ==
    /\ Resolved
    /\ args.configFile # EmptyStr
    /\ \E o \in Overridable :
         /\ EnvParsesNonEmpty(o)
         /\ Prior[o.field] # DefaultConfig[o.field]
         /\ conf[1][o.field] # Prior[o.field]
         /\ \E f \in DOMAIN conf[1] :
              f # o.field /\ Prior[f] # DefaultConfig[f] /\ conf[1][f] = Prior[f]

\* C2: a variable that is absent or fails conversion leaves its field at the
\* value of the earlier layers, the other variables still override their
\* fields, and the environment layer never makes resolution fail
C2_EnvFailureLeavesField ==
    /\ Resolved =>
         \A o \in Overridable :
           (~EnvSet(o) \/ EnvFailsConversion(o)) =>
               /\ conf[1][o.field] = Prior[o.field]
               /\ \A o2 \in Overridable \ {o} :
                    EnvParsesNonEmpty(o2) => conf[1][o2.field] = EnvParsed(o2)
    /\ (pc = "ReadReturned" /\ (args.configFile = EmptyStr \/ fileRet.err = NoErr))
           => (err = NoErr /\ conf # Nil)

\* a variable fails conversion over a value of the file while another
\* variable overrides its field
C2_Witness ==
    /\ Resolved
    /\ \E o \in Overridable :
         /\ EnvFailsConversion(o)
         /\ Prior[o.field] # DefaultConfig[o.field]
         /\ conf[1][o.field] = Prior[o.field]
         /\ \E o2 \in Overridable \ {o} :
              EnvParsesNonEmpty(o2) /\ conf[1][o2.field] # Prior[o2.field]

\* C9: with no file path and none of the variables set, the resolved
\* configuration is DefaultConfig, field by field
C9_DefaultsRoundTrip ==
    (Resolved /\ args.configFile = EmptyStr /\ \A v \in EnvVars : v \notin DOMAIN env)
        => /\ conf[1] = DefaultConfig
           /\ conf[1].LogSensor = FALSE
           /\ conf[1].IntervalSecs = 30
           /\ conf[1].MetricConfig = <<":","9","1","9","2">>
           /\ conf[1].Placement = EmptyStr
           /\ conf[1].DisableMqtt = FALSE
           /\ conf[1].GpioBus = defaultSensorConfig.GpioBus
           /\ conf[1].GpioAddress = defaultSensorConfig.GpioAddress

C9_Witness ==
    Resolved /\ args.configFile = EmptyStr /\ DOMAIN env = {} /\ conf # Nil

\* the environment without the variables set to the empty string
DropEmpty(e) == [n \in { m \in DOMAIN e : e[m] # EmptyStr } |-> e[n]]

\* C10: a variable set to the empty string acts as an absent one: the
\* resolved configuration is the one resolved without it, a string field
\* differs from the earlier layers only by the non-empty value of its
\* variable, and no field that was non-empty is made empty
C10_EmptyIsAbsent ==
    Resolved =>
        /\ conf[1] = ApplyEnv(Prior, DropEmpty(env))
        /\ \A o \in Overridable :
             /\ (EnvSet(o) /\ env[o.var] = EmptyStr) => conf[1][o.field] = Prior[o.field]
             /\ (o.type = "string" /\ conf[1][o.field] # Prior[o.field])
                    => (EnvSet(o) /\ env[o.var] # EmptyStr
                        /\ conf[1][o.field] = env[o.var])
        /\ (Prior.MetricConfig # EmptyStr) => conf[1].MetricConfig # EmptyStr

\* the metrics address variable is set to the empty string and the address
\* of the earlier layers stays
C10_Witness ==
    /\ Resolved
    /\ VarMetricsAddr \in DOMAIN env
    /\ env[VarMetricsAddr] = EmptyStr
    /\ conf[1].MetricConfig = Prior.MetricConfig
    /\ conf[1].MetricConfig # EmptyStr

----------------------------------------------------------------------------
(* Properties of Validate *)

\* Validate returned for the configuration conf[1]
Validated == pc = "validate_return"

Accepted == err = NoErr

\* C3: with a placement, a valid sensor sub-config and MQTT disabled,
\* Validate accepts exactly the intervals from 30 to 300, both included
C3_IntervalBounds ==
    (/\ Validated
     /\ conf[1].Placement # EmptyStr
     /\ SensorValidate(conf[1]) = NoErr
     /\ conf[1].DisableMqtt)
        => /\ Accepted <=> (30 <= conf[1].IntervalSecs /\ conf[1].IntervalSecs <= 300)
           /\ conf[1].IntervalSecs \in {30, 300} => Accepted
           /\ conf[1].IntervalSecs \in {29, 301} => ~Accepted
           /\ conf[1].IntervalSecs <= 0 => ~Accepted

\* the interval 300 is accepted
C3_Witness ==
    /\ Validated
    /\ conf[1].Placement # EmptyStr
    /\ SensorValidate(conf[1]) = NoErr
    /\ conf[1].DisableMqtt
    /\ conf[1].IntervalSecs = 300
    /\ Accepted

\* C4: a configuration with an empty placement is rejected whatever its
\* other fields are, so no accepted configuration has an empty placement
C4_EmptyPlacementRejected ==
    Validated =>
        /\ conf[1].Placement = EmptyStr => ~Accepted
        /\ Accepted => conf[1].Placement # EmptyStr

\* an empty placement is rejected in a configuration whose other fields are valid
C4_Witness ==
    /\ Validated
    /\ conf[1].Placement = EmptyStr
    /\ 30 <= conf[1].IntervalSecs /\ conf[1].IntervalSecs <= 300
    /\ SensorValidate(conf[1]) = NoErr
    /\ MqttValidate(conf[1]) = NoErr
    /\ ~Accepted

\* placement and interval pass their rules
C5_PlacementAndIntervalValid ==
    /\ conf[1].Placement # EmptyStr
    /\ 30 <= conf[1].IntervalSecs
    /\ conf[1].IntervalSecs <= 300

\* C5: with MQTT disabled the MQTT sub-config does not decide the outcome:
\* a configuration with valid placement, interval and sensor sub-config is
\* accepted; the MQTT sub-validation decides only when MQTT is enabled; the
\* sensor sub-validation decides in both cases
C5_MqttSkippedWhenDisabled ==
    (Validated /\ C5_PlacementAndIntervalValid) =>
        /\ (conf[1].DisableMqtt /\ SensorValidate(conf[1]) = NoErr) => Accepted
        /\ (~conf[1].DisableMqtt /\ SensorValidate(conf[1]) = NoErr)
               => err = MqttValidate(conf[1])
        /\ SensorValidate(conf[1]) # NoErr => err = SensorValidate(conf[1])

\* accepted with MQTT disabled, no host and a client cert without a key
C5_Witness ==
    /\ Validated
    /\ conf[1].DisableMqtt
    /\ conf[1].Host = EmptyStr
    /\ conf[1].ClientCertFile # EmptyStr
    /\ conf[1].ClientKeyFile = EmptyStr
    /\ MqttValidate(conf[1]) # NoErr
    /\ Accepted

\* the errors of the rules a configuration violates, in the order of the rules
C6_Violations(c) ==
    (IF c.Placement = EmptyStr THEN <<ErrEmptyPlacement>> ELSE <<>>)
    \o (IF c.IntervalSecs < 30 THEN <<ErrIntervalLow>> ELSE <<>>)
    \o (IF c.IntervalSecs > 300 THEN <<ErrIntervalHigh>> ELSE <<>>)
    \o (IF SensorValidate(c) # NoErr THEN <<SensorValidate(c)>> ELSE <<>>)
    \o (IF ~c.DisableMqtt /\ MqttValidate(c) # NoErr THEN <<MqttValidate(c)>> ELSE <<>>)

\* C6: Validate returns the error of the earliest violated rule in the order
\* placement, interval lower bound, interval upper bound, sensor, MQTT, and
\* no error when no rule is violated
C6_FirstFailureWins ==
    Validated =>
        err = IF C6_Violations(conf[1]) = <<>> THEN NoErr
              ELSE Head(C6_Violations(conf[1]))

\* an empty placement with the interval 10 and an invalid sensor sub-config
\* reports the placement
C6_Witness ==
    /\ Validated
    /\ conf[1].Placement = EmptyStr
    /\ conf[1].IntervalSecs = 10
    /\ SensorValidate(conf[1]) # NoErr
    /\ Len(C6_Violations(conf[1])) >= 3
    /\ err = ErrEmptyPlacement

----------------------------------------------------------------------------
(* Properties of the start-up sequence *)

ResourceCreated ==
    metrics # Nil \/ adaptors \/ mqttAdaptor # Nil \/ bot # "none"

InRun == pc \in {"run", "run_adaptors", "run_mqtt", "run_assemble", "run_start", "started"}

\* C7: a resource exists only after Read returned a configuration and
\* Validate returned no error for it; run is reached with such a
\* configuration only; a run whose resolution or validation failed ends
\* with status 1 and no resource
C7_ValidatedBeforeResources ==
    /\ (ResourceCreated \/ InRun)
           => (conf # Nil /\ err = NoErr /\ Validate(conf[1]) = NoErr)
    /\ ResourceCreated => (InRun \/ pc = "exit")
    /\ (pc = "exit" /\ err # NoErr) => (exitCode = 1 /\ ~ResourceCreated)
    /\ (conf # Nil /\ pc \notin {"main", "Read", "ReadEnv", "ReadReturned", "Validate"}
        /\ Validate(conf[1]) # NoErr)
           => (pc = "exit" /\ exitCode = 1 /\ ~ResourceCreated)

\* the metrics server, the adaptors and the MQTT adaptor exist and the bot started
C7_Witness ==
    /\ pc = "started"
    /\ metrics # Nil
    /\ adaptors
    /\ mqttAdaptor # Nil
    /\ Validate(conf[1]) = NoErr

\* C8 as stated: when the file cannot be read or decoded, ReadJsonConfig and
\* Read return an error and no configuration, and the environment layer is
\* not applied
C8_FileErrorNoConfig ==
    fileRet.err # NoErr =>
        /\ fileRet.conf = Nil
        /\ conf = Nil
        /\ err = fileRet.err
        /\ pc \in {"ReadReturned", "exit"}

====
